---- MODULE Spec2Model ----
\* Device-code flow of the Azure AD token utility: the web application's
\* session store and its two request handlers (src/web_app.py), and the
\* blocking polling loop of the command line version (src/cli.py).
EXTENDS Integers, Sequences, FiniteSets, TLC

\* ------------------------------------------------------------------ bounds
NumThreads == 2       \* request threads of the (threaded) Flask server
MaxSessions == 2      \* session ids uuid4 may hand out in one run
MaxTime == 2          \* last clock reading the model distinguishes
MaxTerminals == 2     \* terminal outcomes counted per session id
MaxCalls == 3         \* token-endpoint requests of the command line counted

\* ------------------------------------------------------- program constants
DefaultInterval == 5        \* device.get('interval', 5)
DefaultExpiresIn == 900     \* device.get('expires_in', 900)

Threads == 1..NumThreads
SessionIds == 1..MaxSessions

\* ------------------------------------------------------------ Python values
\* An optional value (a key that may be absent from a dict, or None) is a
\* sequence of length at most one.
Absent == <<>>
Some(x) == <<x>>

\* dict operations on the session dictionary (a function on a set of ids)
EmptyDict == [s \in {} |-> 0]
\* a del that also pushes back the expiry of the sessions it leaves
DictDelExtends(d, k) ==
    [s \in (DOMAIN d) \ {k} |-> [d[s] EXCEPT !.expires_at = @ + 1]]
\* a del that removes nothing
DictDelForgotten(d, k) == d
DictDel(d, k) == [s \in (DOMAIN d) \ {k} |-> d[s]]
DictPut(d, k, v) == [s \in (DOMAIN d) \cup {k} |-> IF s = k THEN v ELSE d[s]]

Min(a, b) == IF a < b THEN a ELSE b

\* ------------------------------------------------------------ the provider
\* Values the provider issues for the k-th device-code grant.
DeviceCodeOf(k) == <<"device_code", k>>
UserCodeOf(k) == <<"user_code", k>>
VerificationUri == <<"verification_uri", 0>>
GrantMessage(k) == <<"message", k>>

ClientIds == {"abc"}
NoClientId == ""

\* JSON bodies of the device-code endpoint for the k-th grant: complete
\* grants with and without the optional interval / expires_in, and grants
\* that lack one of the four keys the handler indexes.
FullGrant(k, iv, ex) ==
    [device_code |-> Some(DeviceCodeOf(k)), user_code |-> Some(UserCodeOf(k)),
     verification_uri |-> Some(VerificationUri), message |-> Some(GrantMessage(k)),
     interval |-> iv, expires_in |-> ex]
Grants(k) ==
    {FullGrant(k, Some(1), Some(1)), FullGrant(k, Absent, Absent)}
    \cup {[FullGrant(k, Some(1), Some(1)) EXCEPT !.device_code = Absent],
          [FullGrant(k, Some(1), Some(1)) EXCEPT !.user_code = Absent],
          [FullGrant(k, Some(1), Some(1)) EXCEPT !.verification_uri = Absent],
          [FullGrant(k, Some(1), Some(1)) EXCEPT !.message = Absent]}
NoGrant == [device_code |-> Absent, user_code |-> Absent,
            verification_uri |-> Absent, message |-> Absent,
            interval |-> Absent, expires_in |-> Absent]

\* HTTP answers of the device-code endpoint; status 0 stands for a transport
\* failure (requests.post raises).
DeviceCodeResponses(k) ==
    {[status |-> 200, json |-> g] : g \in Grants(k)}
    \cup {[status |-> 400, json |-> NoGrant], [status |-> 0, json |-> NoGrant]}

\* JSON bodies of the token endpoint, and the raw text of a body.
NoText == <<"text", 0>>
EmptyJson == [error |-> Absent, access_token |-> Absent, refresh_token |-> Absent,
              id_token |-> Absent, expires_in |-> Absent]
TokenJson(at, rt, it, ex) ==
    [error |-> Absent, access_token |-> at, refresh_token |-> rt,
     id_token |-> it, expires_in |-> ex]
ErrorJson(e) == [EmptyJson EXCEPT !.error = Some(e)]
TokenPayloads ==
    {TokenJson(Some(<<"access_token", 1>>), Some(<<"refresh_token", 1>>),
               Some(<<"id_token", 1>>), Some(3600)),
     TokenJson(Some(<<"access_token", 2>>), Absent, Absent, Absent)}
PendingErrors == {"authorization_pending", "slow_down"}
OtherErrors == {"authorization_declined"}

\* HTTP answers of the token endpoint; status 0 is a transport failure.
TokenResponses ==
    {[status |-> 200, json |-> p, text |-> NoText] : p \in TokenPayloads}
    \cup {[status |-> 200, json |-> EmptyJson, text |-> NoText],
          [status |-> 200, text |-> NoText,
           json |-> TokenJson(Absent, Some(<<"refresh_token", 1>>), Absent, Absent)]}
    \cup {[status |-> 400, json |-> ErrorJson(e), text |-> NoText] :
              e \in PendingErrors \cup OtherErrors}
    \cup {[status |-> 400, json |-> EmptyJson, text |-> NoText],
          [status |-> 401, json |-> EmptyJson, text |-> <<"text", 401>>],
          [status |-> 503, json |-> EmptyJson, text |-> <<"text", 503>>],
          [status |-> 0, json |-> EmptyJson, text |-> NoText]}

\* ------------------------------------------------- results and exceptions
NoExc == [msg |-> "", json |-> EmptyJson, text |-> NoText]
Exc(m, j, t) == [msg |-> m, json |-> j, text |-> t]
Return(v) == [raised |-> FALSE, exc |-> NoExc, value |-> v]
Raise(e) == [raised |-> TRUE, exc |-> e, value |-> Absent]

\* get_device_code: raise_for_status() raises on 4xx/5xx, requests.post raises
\* on a transport failure; otherwise the JSON body is returned.
get_device_code(resp) ==
    IF resp.status = 0 THEN Raise(Exc("ConnectionError", EmptyJson, NoText))
    ELSE IF resp.status >= 400 THEN Raise(Exc("HTTPError", EmptyJson, NoText))
    ELSE Return(Some(resp.json))

\* a classification in which only slow_down means "still waiting"
poll_for_token_PendingRaises(resp) ==
    IF resp.status = 0 THEN Raise(Exc("ConnectionError", EmptyJson, NoText))
    ELSE IF resp.status = 200 THEN Return(Some(resp.json))
    ELSE IF resp.status = 400
    THEN IF resp.json.error = Some("slow_down")
         THEN Return(Absent)
         ELSE Raise(Exc("OAuth error: ", resp.json, NoText))
    ELSE Raise(Exc("Unexpected error: ", EmptyJson, resp.text))

\* a classification in which every HTTP 400 means "still waiting" and every
\* other failure status is swallowed
poll_for_token_ErrorsSwallowed(resp) ==
    IF resp.status = 0 THEN Raise(Exc("ConnectionError", EmptyJson, NoText))
    ELSE IF resp.status = 200 THEN Return(Some(resp.json))
    ELSE Return(Absent)

\* a classification in which slow_down is a failure
poll_for_token_SlowDownRaises(resp) ==
    IF resp.status = 0 THEN Raise(Exc("ConnectionError", EmptyJson, NoText))
    ELSE IF resp.status = 200 THEN Return(Some(resp.json))
    ELSE IF resp.status = 400
    THEN IF resp.json.error = Some("authorization_pending")
         THEN Return(Absent)
         ELSE Raise(Exc("OAuth error: ", resp.json, NoText))
    ELSE Raise(Exc("Unexpected error: ", EmptyJson, resp.text))

\* poll_for_token (web): one redemption request, classified.
poll_for_token(resp) ==
    IF resp.status = 0 THEN Raise(Exc("ConnectionError", EmptyJson, NoText))
    ELSE IF resp.status = 200 THEN Return(Some(resp.json))
    ELSE IF resp.status = 400
    THEN IF resp.json.error # Absent /\ resp.json.error[1] \in PendingErrors
         THEN Return(Absent)
         ELSE Raise(Exc("OAuth error: ", resp.json, NoText))
    ELSE Raise(Exc("Unexpected error: ", EmptyJson, resp.text))

\* Python truth value of poll_for_token's result: None and {} are false.
Truthy(v) == v # Absent /\ v[1] # EmptyJson

\* --------------------------------------------------------------- responses
\* What a handler hands back to the caller: the HTTP status and the JSON
\* body's keys ("unhandled" names an exception Flask turned into a 500).
NoResp == [status |-> 0, error |-> NoExc, unhandled |-> "", st |-> Absent,
           session_id |-> Absent, verification_uri |-> Absent,
           user_code |-> Absent, message |-> Absent, access_token |-> Absent,
           refresh_token |-> Absent, id_token |-> Absent, expires_in |-> Absent]
ErrorResp(code, e) == [NoResp EXCEPT !.status = code, !.error = e]
Unhandled(name) == [NoResp EXCEPT !.status = 500, !.unhandled = name]
PendingResp == [NoResp EXCEPT !.status = 200, !.st = Some("pending")]
KeyError(k) == Exc(k, EmptyJson, NoText)
\* an unknown session reported as still waiting
NotFoundAsPending == PendingResp
\* line 175
NotFoundResp == ErrorResp(404, Exc("Invalid session ID", EmptyJson, NoText))

\* a body that hands out the device code in place of the user code
DeviceCodeBodyLeaks(s, d) ==
    [NoResp EXCEPT !.status = 200, !.session_id = Some(s),
                   !.verification_uri = d.verification_uri,
                   !.user_code = d.device_code, !.message = d.message]

\* The body api_device_code builds after the save (lines 161-166); a key the
\* grant lacks raises KeyError, which the handler's except turns into a 500.
DeviceCodeBody(s, d) ==
    IF d.verification_uri = Absent THEN ErrorResp(500, KeyError("'verification_uri'"))
    ELSE IF d.user_code = Absent THEN ErrorResp(500, KeyError("'user_code'"))
    ELSE IF d.message = Absent THEN ErrorResp(500, KeyError("'message'"))
    ELSE [NoResp EXCEPT !.status = 200, !.session_id = Some(s),
                        !.verification_uri = d.verification_uri,
                        !.user_code = d.user_code, !.message = d.message]

\* a body that returns the refresh token as the access token
TokenBodySwapped(t) ==
    [NoResp EXCEPT !.status = 200, !.access_token = t.refresh_token,
                   !.refresh_token = t.access_token,
                   !.id_token = t.id_token, !.expires_in = t.expires_in]

\* The body api_poll_token builds from the token (lines 196-201). A token
\* without access_token raises KeyError inside the try; the except clause's
\* own del then raises KeyError again, which nothing handles.
TokenBody(t) ==
    IF t.access_token = Absent THEN Unhandled("KeyError")
    ELSE [NoResp EXCEPT !.status = 200, !.access_token = t.access_token,
                        !.refresh_token = t.refresh_token,
                        !.id_token = t.id_token, !.expires_in = t.expires_in]

\* a record whose lifetime, when the grant gives none, is the default interval
NewSession_DefaultsMixedUp(cid, d, t) ==
    [client_id |-> cid,
     device_code |-> d.device_code[1],
     interval |-> IF d.interval = Absent THEN DefaultInterval ELSE d.interval[1],
     expires_at |-> t + (IF d.expires_in = Absent THEN DefaultInterval
                         ELSE d.expires_in[1])]

\* The session record api_device_code stores (lines 153-158).
NewSession(cid, d, t) ==
    [client_id |-> cid,
     device_code |-> d.device_code[1],
     interval |-> IF d.interval = Absent THEN DefaultInterval ELSE d.interval[1],
     expires_at |-> t + (IF d.expires_in = Absent THEN DefaultExpiresIn
                         ELSE d.expires_in[1])]

\* ------------------------------------------------------------------- state
VARIABLES
    fileState,    \* the pickle file: "absent", "empty" (opened 'wb', not yet written) or "ok"
    sessionFile,  \* the dictionary pickled in the file
    now,          \* time.time()
    nextId,       \* how many session ids uuid4 has handed out
    pc,           \* where each request thread is
    client,       \* client_id of the request being served
    sid,          \* session_id of the request being served
    device,       \* the grant get_device_code returned
    local,        \* the handler's active_sessions
    http,         \* the token endpoint's answer to the request being served
    pend,         \* what api_poll_token answers once the save is done
    redeemCalls,  \* token-endpoint requests made by the thread's current request
    out,          \* the response the step just taken returned, if it returned
                  \* one: by which handler and thread, for which session id,
                  \* after how many token-endpoint requests and which answer
    created,      \* history: the session ids api_device_code has saved
    terminals,    \* history: per session id, how many advance requests ended
                  \* in a terminal outcome (counted up to MaxTerminals)
    born,         \* history: per session id api_device_code has saved, the
                  \* record it saved, kept until an advance on that id has
                  \* ended in a terminal outcome
    cliPc,        \* cli.py: where main is
    cliDevice,    \* cli.py: the grant main holds
    cliNow,       \* cli.py: the clock of the command-line process
    cliCalls,     \* cli.py: token-endpoint requests sent (counted up to MaxCalls)
    cliOut,       \* cli.py: how main ended, and what it printed last
    cliHttp,      \* cli.py: the token endpoint's answer to the last request
    cliLastAt,    \* history: the clock of the command line at its last request
    script,       \* the provider: the answers of the token endpoint it has
                  \* settled on, in order, when both programs are run against
                  \* the same provider; empty when it answers freely
    scriptPos     \* how many answers of the script the web application got

vars == <<fileState, sessionFile, now, nextId, pc, client, sid, device, local,
          http, pend, redeemCalls, out, created, terminals, born,
          cliPc, cliDevice, cliNow, cliCalls, cliOut, cliHttp, cliLastAt,
          script, scriptPos>>

webVars == <<fileState, sessionFile, now, nextId, pc, client, sid, device, local,
             http, pend, redeemCalls, out, created, terminals, born>>
cliVars == <<cliPc, cliDevice, cliNow, cliCalls, cliOut, cliHttp, cliLastAt>>
scriptVars == <<script, scriptPos>>

history == <<created, terminals, born>>

NoOut == [op |-> "", thread |-> 0, sid |-> 0, resp |-> NoResp, calls |-> 0,
          http |-> Absent]
NoPend == [kind |-> "none", exc |-> NoExc, token |-> EmptyJson]
NoCliOut == [kind |-> "", json |-> EmptyJson, text |-> NoText]

\* cli.py before main has run.
CliInit ==
    /\ cliPc = "start"
    /\ cliDevice = NoGrant
    /\ cliNow = 0
    /\ cliCalls = 0
    /\ cliOut = NoCliOut
    /\ cliHttp = Absent
    /\ cliLastAt = 0

\* The provider has settled on no answers.
NoScript ==
    /\ script = <<>>
    /\ scriptPos = 0

\* load_sessions: the unpickled dictionary, {} when the file does not exist;
\* unpickling a file another thread has truncated raises EOFError.
load_sessions ==
    IF fileState = "empty" THEN Raise(Exc("Ran out of input", EmptyJson, NoText))
    ELSE IF fileState = "absent" THEN Return(Some(EmptyDict))
    ELSE Return(Some(sessionFile))

Init ==
    /\ fileState = "absent"
    /\ sessionFile = EmptyDict
    /\ now = 0
    /\ nextId = 0
    /\ pc = [r \in Threads |-> "idle"]
    /\ client = [r \in Threads |-> NoClientId]
    /\ sid = [r \in Threads |-> 0]
    /\ device = [r \in Threads |-> NoGrant]
    /\ local = [r \in Threads |-> EmptyDict]
    /\ http = [r \in Threads |-> Absent]
    /\ pend = [r \in Threads |-> NoPend]
    /\ redeemCalls = [r \in Threads |-> 0]
    /\ out = NoOut
    /\ created = {}
    /\ born = EmptyDict
    /\ terminals = [s \in SessionIds |-> 0]
    /\ CliInit
    /\ NoScript

\* an id generator that hands out the same id again
uuid4_Reused(n) == 1
\* str(uuid.uuid4()), line 151: an id that was not handed out before, the
\* (n+1)-th one.
uuid4(n) == n + 1

\* Handler op of thread r, serving session id s, returns response x after n
\* token-endpoint requests, the last answered h, and the thread is free again.
Finish(op, r, s, x, n, h) ==
    /\ pc' = [pc EXCEPT ![r] = "idle"]
    /\ out' = [op |-> op, thread |-> r, sid |-> s, resp |-> x, calls |-> n,
               http |-> h]
    /\ http' = [http EXCEPT ![r] = Absent]
    /\ sid' = [sid EXCEPT ![r] = 0]
    /\ redeemCalls' = [redeemCalls EXCEPT ![r] = 0]
    /\ client' = [client EXCEPT ![r] = NoClientId]
    /\ device' = [device EXCEPT ![r] = NoGrant]
    /\ local' = [local EXCEPT ![r] = EmptyDict]
    /\ pend' = [pend EXCEPT ![r] = NoPend]

\* The clock advances.
Tick ==
    /\ UNCHANGED <<cliVars, scriptVars>>
    /\ now < MaxTime
    /\ now' = now + 1
    /\ UNCHANGED <<fileState, sessionFile, nextId, pc, client, sid, device, local, http, pend, redeemCalls>>
    /\ out' = NoOut
    /\ UNCHANGED history

\* api_device_code, lines 140-151: the request arrives; a missing client_id
\* is answered 400 at once, otherwise the device code is requested and uuid4
\* draws the session id.
StartFlow(r, cid) ==
    /\ UNCHANGED <<cliVars, scriptVars>>
    /\ pc[r] = "idle"
    /\ nextId < MaxSessions
    /\ IF cid = NoClientId
       THEN /\ Finish("device-code", r, 0, ErrorResp(400, Exc("Client ID is required", EmptyJson, NoText)), 0, Absent)
            /\ UNCHANGED nextId
       ELSE \E hr \in DeviceCodeResponses(nextId + 1) :
              LET res == get_device_code(hr) IN
              IF res.raised
              THEN /\ Finish("device-code", r, 0, ErrorResp(500, res.exc), 0, Absent)
                   /\ UNCHANGED nextId
              ELSE /\ client' = [client EXCEPT ![r] = cid]
                   /\ device' = [device EXCEPT ![r] = res.value[1]]
                   /\ sid' = [sid EXCEPT ![r] = uuid4(nextId)]
                   /\ nextId' = nextId + 1
                   /\ pc' = [pc EXCEPT ![r] = "dc_load"]
                   /\ UNCHANGED <<local, http, pend, redeemCalls>>
                   /\ out' = NoOut
    /\ UNCHANGED <<fileState, sessionFile, now>>
    /\ UNCHANGED history

\* api_device_code, line 152: load_sessions inside the try.
DcLoad(r) ==
    /\ UNCHANGED <<cliVars, scriptVars>>
    /\ pc[r] = "dc_load"
    /\ LET res == load_sessions IN
       IF res.raised
       THEN Finish("device-code", r, sid[r], ErrorResp(500, res.exc), 0, Absent)
       ELSE /\ local' = [local EXCEPT ![r] = res.value[1]]
            /\ pc' = [pc EXCEPT ![r] = "dc_build"]
            /\ UNCHANGED <<client, sid, device, http, pend, redeemCalls>>
            /\ out' = NoOut
    /\ UNCHANGED <<fileState, sessionFile, now, nextId>>
    /\ UNCHANGED history

\* api_device_code, lines 153-158: the session record is put into the loaded
\* dictionary, with time.time() read now (line 157); a grant without
\* device_code raises KeyError (line 155).
DcBuild(r) ==
    /\ UNCHANGED <<cliVars, scriptVars>>
    /\ pc[r] = "dc_build"
    /\ IF device[r].device_code = Absent
       THEN Finish("device-code", r, sid[r], ErrorResp(500, KeyError("'device_code'")), 0, Absent)
       ELSE /\ local' = [local EXCEPT ![r] =
                           DictPut(@, sid[r], NewSession(client[r], device[r], now))]
            /\ pc' = [pc EXCEPT ![r] = "dc_trunc"]
            /\ UNCHANGED <<client, sid, device, http, pend, redeemCalls>>
            /\ out' = NoOut
    /\ UNCHANGED <<fileState, sessionFile, now, nextId>>
    /\ UNCHANGED history

\* save_sessions, line 57: open(SESSION_FILE, 'wb') truncates the file.
Truncate ==
    /\ fileState' = "empty"
    /\ sessionFile' = EmptyDict

\* save_sessions, line 58: pickle.dump writes the dictionary.
Dump(sessions) ==
    /\ fileState' = "ok"
    /\ sessionFile' = sessions

DcTrunc(r) ==
    /\ UNCHANGED <<cliVars, scriptVars>>
    /\ pc[r] = "dc_trunc"
    /\ Truncate
    /\ pc' = [pc EXCEPT ![r] = "dc_write"]
    /\ UNCHANGED <<now, nextId, client, sid, device, local, http, pend, redeemCalls>>
    /\ out' = NoOut
    /\ UNCHANGED history

\* api_device_code, lines 159-168: the dump, then the response.
DcWrite(r) ==
    /\ UNCHANGED <<cliVars, scriptVars>>
    /\ pc[r] = "dc_write"
    /\ Dump(local[r])
    /\ Finish("device-code", r, sid[r], DeviceCodeBody(sid[r], device[r]), 0, Absent)
    /\ created' = created \cup {sid[r]}
    /\ born' = DictPut(born, sid[r], local[r][sid[r]])
    /\ UNCHANGED <<now, nextId, terminals>>

\* an expiry test that is one second late
ExpiredLate(t, session_data) == t > session_data.expires_at + 1
\* The test of line 180.
Expired(t, session_data) == t > session_data.expires_at

\* api_poll_token, lines 173-177: the request arrives and the sessions are
\* loaded (outside any try); an unknown session id is answered 404.
Poll(r, s) ==
    /\ UNCHANGED <<cliVars, scriptVars>>
    /\ pc[r] = "idle"
    /\ LET res == load_sessions IN
       IF res.raised
       THEN Finish("poll-token", r, s, Unhandled("EOFError"), 0, Absent)
       ELSE IF s \notin DOMAIN res.value[1]
       THEN Finish("poll-token", r, s, NotFoundResp, 0, Absent)
       ELSE /\ sid' = [sid EXCEPT ![r] = s]
            /\ local' = [local EXCEPT ![r] = res.value[1]]
            /\ pc' = [pc EXCEPT ![r] = "poll_check"]
            /\ UNCHANGED <<client, device, http, pend, redeemCalls>>
            /\ out' = NoOut
    /\ UNCHANGED <<fileState, sessionFile, now, nextId>>
    /\ UNCHANGED history

\* api_poll_token, lines 180-181: the expiry check on the loaded record, with
\* time.time() read now; an expired session is deleted from the dictionary.
PollCheck(r) ==
    /\ UNCHANGED <<cliVars, scriptVars>>
    /\ pc[r] = "poll_check"
    /\ IF Expired(now, local[r][sid[r]])
       THEN /\ local' = [local EXCEPT ![r] = DictDel(@, sid[r])]
            /\ pend' = [pend EXCEPT ![r] = [NoPend EXCEPT !.kind = "expired"]]
            /\ pc' = [pc EXCEPT ![r] = "poll_trunc"]
       ELSE /\ pc' = [pc EXCEPT ![r] = "poll_http"]
            /\ UNCHANGED <<local, pend>>
    /\ UNCHANGED <<client, sid, device, http, redeemCalls>>
    /\ out' = NoOut
    /\ UNCHANGED <<fileState, sessionFile, now, nextId>>
    /\ UNCHANGED history

\* a handler that asks the provider a second time when the first answer is
\* pending
PollHttpOn_AsksAgain(r, answers) ==
    /\ UNCHANGED cliVars
    /\ pc[r] = "poll_http"
    /\ \E hr \in answers :
         LET res == poll_for_token(hr) IN
         IF res.raised \/ Truthy(res.value)
         THEN /\ local' = [local EXCEPT ![r] = DictDel(@, sid[r])]
              /\ pend' = [pend EXCEPT ![r] =
                            IF res.raised
                            THEN [NoPend EXCEPT !.kind = "error", !.exc = res.exc]
                            ELSE [NoPend EXCEPT !.kind = "token",
                                                !.token = res.value[1]]]
              /\ pc' = [pc EXCEPT ![r] = "poll_trunc"]
              /\ redeemCalls' = [redeemCalls EXCEPT ![r] = @ + 1]
              /\ http' = [http EXCEPT ![r] = Some(hr)]
              /\ UNCHANGED <<client, sid, device>>
              /\ out' = NoOut
         ELSE IF redeemCalls[r] = 0
         THEN /\ redeemCalls' = [redeemCalls EXCEPT ![r] = @ + 1]
              /\ http' = [http EXCEPT ![r] = Some(hr)]
              /\ UNCHANGED <<client, sid, device, local, pend, pc>>
              /\ out' = NoOut
         ELSE Finish("poll-token", r, sid[r], PendingResp, redeemCalls[r] + 1, Some(hr))
    /\ UNCHANGED <<fileState, sessionFile, now, nextId>>
    /\ UNCHANGED history

\* api_poll_token, lines 186-194, 203, 205-207: one redemption request with
\* the session's client_id and device_code, and what the handler makes of it.
PollHttpOn(r, answers) ==
    /\ UNCHANGED cliVars
    /\ pc[r] = "poll_http"
    /\ \E hr \in answers :
         LET res == poll_for_token(hr) IN
         IF res.raised
         THEN /\ local' = [local EXCEPT ![r] = DictDel(@, sid[r])]
              /\ pend' = [pend EXCEPT ![r] = [NoPend EXCEPT !.kind = "error",
                                                            !.exc = res.exc]]
              /\ pc' = [pc EXCEPT ![r] = "poll_trunc"]
              /\ redeemCalls' = [redeemCalls EXCEPT ![r] = @ + 1]
              /\ http' = [http EXCEPT ![r] = Some(hr)]
              /\ UNCHANGED <<client, sid, device>>
              /\ out' = NoOut
         ELSE IF Truthy(res.value)
         THEN /\ local' = [local EXCEPT ![r] = DictDel(@, sid[r])]
              /\ pend' = [pend EXCEPT ![r] = [NoPend EXCEPT !.kind = "token",
                                                            !.token = res.value[1]]]
              /\ pc' = [pc EXCEPT ![r] = "poll_trunc"]
              /\ redeemCalls' = [redeemCalls EXCEPT ![r] = @ + 1]
              /\ http' = [http EXCEPT ![r] = Some(hr)]
              /\ UNCHANGED <<client, sid, device>>
              /\ out' = NoOut
         ELSE Finish("poll-token", r, sid[r], PendingResp, redeemCalls[r] + 1, Some(hr))
    /\ UNCHANGED <<fileState, sessionFile, now, nextId>>
    /\ UNCHANGED history

\* The same when the provider answers freely.
PollHttp(r) == PollHttpOn(r, TokenResponses) /\ UNCHANGED scriptVars

PollTrunc(r) ==
    /\ UNCHANGED <<cliVars, scriptVars>>
    /\ pc[r] = "poll_trunc"
    /\ Truncate
    /\ pc' = [pc EXCEPT ![r] = "poll_write"]
    /\ UNCHANGED <<now, nextId, client, sid, device, local, http, pend, redeemCalls>>
    /\ out' = NoOut
    /\ UNCHANGED history

\* The response api_poll_token returns after its save_sessions.
PollBody(p) ==
    IF p.kind = "expired"
    THEN ErrorResp(408, Exc("Session expired", EmptyJson, NoText))
    ELSE IF p.kind = "error" THEN ErrorResp(500, p.exc)
    ELSE TokenBody(p.token)

\* api_poll_token, lines 182-183, 195-201, 208-209: the dump, then the response.
PollWrite(r) ==
    /\ UNCHANGED <<cliVars, scriptVars>>
    /\ pc[r] = "poll_write"
    /\ Dump(local[r])
    /\ Finish("poll-token", r, sid[r], PollBody(pend[r]), redeemCalls[r], http[r])
    /\ terminals' = [terminals EXCEPT ![sid[r]] = Min(@ + 1, MaxTerminals)]
    /\ born' = [s \in (DOMAIN born) \ {sid[r]} |-> born[s]]
    /\ UNCHANGED <<now, nextId, created>>

Next ==
    \/ Tick
    \/ \E r \in Threads : \E cid \in ClientIds \cup {NoClientId} : StartFlow(r, cid)
    \/ \E r \in Threads : DcLoad(r)
    \/ \E r \in Threads : DcBuild(r)
    \/ \E r \in Threads : DcTrunc(r)
    \/ \E r \in Threads : DcWrite(r)
    \/ \E r \in Threads : \E s \in SessionIds : Poll(r, s)
    \/ \E r \in Threads : PollCheck(r)
    \/ \E r \in Threads : PollHttp(r)
    \/ \E r \in Threads : PollTrunc(r)
    \/ \E r \in Threads : PollWrite(r)

Spec == Init /\ [][Next]_vars

\* ------------------------------------------------ requests one at a time
\* The same server when no two requests overlap: a request is taken up only
\* when every thread is free.
AllIdle == \A r \in Threads : pc[r] = "idle"

NextSeq ==
    \/ Tick
    \/ \E r \in Threads : \E cid \in ClientIds \cup {NoClientId} :
          AllIdle /\ StartFlow(r, cid)
    \/ \E r \in Threads : DcLoad(r)
    \/ \E r \in Threads : DcBuild(r)
    \/ \E r \in Threads : DcTrunc(r)
    \/ \E r \in Threads : DcWrite(r)
    \/ \E r \in Threads : \E s \in SessionIds : AllIdle /\ Poll(r, s)
    \/ \E r \in Threads : PollCheck(r)
    \/ \E r \in Threads : PollHttp(r)
    \/ \E r \in Threads : PollTrunc(r)
    \/ \E r \in Threads : PollWrite(r)

SpecSeq == Init /\ [][NextSeq]_vars

\* --------------------------------------- advances on one session together
\* The server after MaxSessions flows were started at time 0, one after the
\* other, when from then on every request is an advance on the same session.
TheSession == 1
Untouched(b) == NewSession("abc", FullGrant(b, Absent, Absent), 0)

InitSame ==
    /\ fileState = "ok"
    /\ \E g \in {FullGrant(TheSession, Some(1), Some(1)),
                  FullGrant(TheSession, Absent, Absent)} :
          sessionFile = [b \in SessionIds |->
                           IF b = TheSession THEN NewSession("abc", g, 0)
                           ELSE Untouched(b)]
    /\ now = 0
    /\ nextId = MaxSessions
    /\ pc = [r \in Threads |-> "idle"]
    /\ client = [r \in Threads |-> NoClientId]
    /\ sid = [r \in Threads |-> 0]
    /\ device = [r \in Threads |-> NoGrant]
    /\ local = [r \in Threads |-> EmptyDict]
    /\ http = [r \in Threads |-> Absent]
    /\ pend = [r \in Threads |-> NoPend]
    /\ redeemCalls = [r \in Threads |-> 0]
    /\ out = NoOut
    /\ created = SessionIds
    /\ born = sessionFile
    /\ terminals = [s \in SessionIds |-> 0]
    /\ CliInit
    /\ NoScript

NextSame ==
    \/ Tick
    \/ \E r \in Threads : Poll(r, TheSession)
    \/ \E r \in Threads : PollCheck(r)
    \/ \E r \in Threads : PollHttp(r)
    \/ \E r \in Threads : PollTrunc(r)
    \/ \E r \in Threads : PollWrite(r)

SpecSame == InitSame /\ [][NextSame]_vars

\* ------------------------------------------------- the command line (cli.py)
\* main ends: it returns, sys.exit(1) ends the process, or an exception
\* nothing catches ends it with a traceback; json and text are the token
\* payload or the provider's error body it printed last.
CliEnd(kind, json, text) ==
    /\ cliPc' = "done"
    /\ cliOut' = [kind |-> kind, json |-> json, text |-> text]

\* main, lines 266-293: the application is chosen, the device code is
\* requested, and the instructions are printed from the grant's
\* verification_uri, user_code and message.
CliStart ==
    /\ cliPc = "start"
    /\ \E sel \in {Absent} \cup {Some(c) : c \in ClientIds} :
       \E resp \in DeviceCodeResponses(1) :
         LET res == get_device_code(resp) IN
         IF sel = Absent
         THEN CliEnd("no-application", EmptyJson, NoText) /\ UNCHANGED cliDevice
         ELSE IF res.raised
         THEN CliEnd("device-code-error", EmptyJson, NoText) /\ UNCHANGED cliDevice
         ELSE IF \/ res.value[1].verification_uri = Absent
                 \/ res.value[1].user_code = Absent
                 \/ res.value[1].message = Absent
         THEN CliEnd("KeyError", EmptyJson, NoText) /\ UNCHANGED cliDevice
         ELSE /\ cliDevice' = res.value[1]
              /\ cliPc' = "input"
              /\ UNCHANGED cliOut
    /\ UNCHANGED <<cliNow, cliCalls, cliHttp, cliLastAt>>
    /\ UNCHANGED <<webVars, scriptVars>>

\* Time passes while input() waits for the user.
CliTick ==
    /\ cliPc = "input"
    /\ cliNow < MaxTime
    /\ cliNow' = cliNow + 1
    /\ UNCHANGED <<cliPc, cliDevice, cliCalls, cliOut, cliHttp, cliLastAt>>
    /\ UNCHANGED <<webVars, scriptVars>>

\* main, lines 295-303: input() returns and poll_for_token is called with
\* device["device_code"] and device.get("interval", 5); a grant without
\* device_code raises KeyError inside the try.
CliEnter ==
    /\ cliPc = "input"
    /\ IF cliDevice.device_code = Absent
       THEN CliEnd("poll-error", EmptyJson, NoText)
       ELSE cliPc' = "poll" /\ UNCHANGED cliOut
    /\ UNCHANGED <<cliDevice, cliNow, cliCalls, cliHttp, cliLastAt>>
    /\ UNCHANGED <<webVars, scriptVars>>

\* a loop that sleeps and asks again when the request itself fails
cli_poll_step_RetriesTransport(resp) ==
    IF resp.status = 0 THEN "sleep"
    ELSE IF resp.status = 200 THEN "return"
    ELSE IF resp.status = 400
    THEN IF resp.json.error # Absent /\ resp.json.error[1] \in PendingErrors
         THEN "sleep"
         ELSE "exit"
    ELSE "exit"

\* a loop that also asks again after an HTTP 400 that is not pending
cli_poll_step_RetriesErrors(resp) ==
    IF resp.status = 0 THEN "raise"
    ELSE IF resp.status = 200 THEN "return"
    ELSE IF resp.status = 400 THEN "sleep"
    ELSE "exit"

\* What one pass of the loop of poll_for_token (cli.py, lines 125-140) makes
\* of the token endpoint's answer.
cli_poll_step(resp) ==
    IF resp.status = 0 THEN "raise"
    ELSE IF resp.status = 200 THEN "return"
    ELSE IF resp.status = 400
    THEN IF resp.json.error # Absent /\ resp.json.error[1] \in PendingErrors
         THEN "sleep"
         ELSE "exit"
    ELSE "exit"

\* poll_for_token (cli.py), lines 125-140, and main, lines 301-312: one
\* redemption request. A 200 returns the payload, which main prints
\* (token['access_token'] of a payload without it raises KeyError); a pending
\* answer goes to sleep; any other answer is sys.exit(1); an exception of
\* requests.post is caught by main.
CliPollOn(answers) ==
    /\ cliPc = "poll"
    /\ cliCalls' = Min(cliCalls + 1, MaxCalls)
    /\ cliLastAt' = cliNow
    /\ \E resp \in answers :
         LET step == cli_poll_step(resp) IN
         /\ cliHttp' = Some(resp)
         /\ IF step = "sleep" THEN cliPc' = "sleep" /\ UNCHANGED cliOut
            ELSE IF step = "raise" THEN CliEnd("poll-error", EmptyJson, NoText)
            ELSE IF step = "exit"
            THEN IF resp.status = 400 THEN CliEnd("exit-1", resp.json, NoText)
                 ELSE CliEnd("exit-1", EmptyJson, resp.text)
            ELSE IF resp.json.access_token = Absent
            THEN CliEnd("KeyError", resp.json, NoText)
            ELSE CliEnd("token", resp.json, NoText)
    /\ UNCHANGED <<cliDevice, cliNow>>
    /\ UNCHANGED webVars

\* The same when the provider answers freely.
CliPoll == CliPollOn(TokenResponses) /\ UNCHANGED scriptVars

\* poll_for_token (cli.py), lines 133-134: time.sleep(interval), continue.
\* The clock is followed up to MaxTime and stays there.
CliSleep ==
    /\ cliPc = "sleep"
    /\ cliNow' = Min(cliNow + (IF cliDevice.interval = Absent THEN DefaultInterval
                               ELSE cliDevice.interval[1]), MaxTime)
    /\ cliPc' = "poll"
    /\ UNCHANGED <<cliDevice, cliCalls, cliOut, cliHttp, cliLastAt>>
    /\ UNCHANGED <<webVars, scriptVars>>

NextCli ==
    \/ CliStart
    \/ CliTick
    \/ CliEnter
    \/ CliPoll
    \/ CliSleep

SpecCli == Init /\ [][NextCli]_vars

\* The command-line process keeps running: a step it can take is taken.
SpecCliFair == SpecCli /\ WF_vars(NextCli)

\* ------------------------------------- both programs, the same provider
\* The web application, asked again and again to advance one stored session,
\* and the command line in its polling loop, when the provider gives both the
\* same answers in the same order: some pending answers, then one that is not.
IsPending(h) ==
    h.status = 400 /\ h.json.error # Absent /\ h.json.error[1] \in PendingErrors
PendingAnswers == {h \in TokenResponses : IsPending(h)}
FinalAnswers == TokenResponses \ PendingAnswers
Scripts ==
    UNION {{p \o <<f>> : p \in [1..n -> PendingAnswers], f \in FinalAnswers} :
               n \in 0..(MaxCalls - 1)}

InitModes ==
    /\ fileState = "ok"
    /\ \E g \in {FullGrant(TheSession, Some(1), Some(1)),
                  FullGrant(TheSession, Absent, Absent)} :
          /\ sessionFile = [b \in SessionIds |->
                              IF b = TheSession THEN NewSession("abc", g, 0)
                              ELSE Untouched(b)]
          /\ cliDevice = g
    /\ now = 0
    /\ nextId = MaxSessions
    /\ pc = [r \in Threads |-> "idle"]
    /\ client = [r \in Threads |-> NoClientId]
    /\ sid = [r \in Threads |-> 0]
    /\ device = [r \in Threads |-> NoGrant]
    /\ local = [r \in Threads |-> EmptyDict]
    /\ http = [r \in Threads |-> Absent]
    /\ pend = [r \in Threads |-> NoPend]
    /\ redeemCalls = [r \in Threads |-> 0]
    /\ out = NoOut
    /\ created = SessionIds
    /\ born = sessionFile
    /\ terminals = [s \in SessionIds |-> 0]
    /\ cliPc = "poll"
    /\ cliNow = 0
    /\ cliCalls = 0
    /\ cliOut = NoCliOut
    /\ cliHttp = Absent
    /\ cliLastAt = 0
    /\ script \in Scripts
    /\ scriptPos = 0

\* The caller of the web application asks again while the provider has
\* answers left, one request at a time.
ModesPoll(r) ==
    /\ scriptPos < Len(script)
    /\ AllIdle
    /\ Poll(r, TheSession)

\* The redemption request of the advance gets the provider's next answer.
ModesPollHttp(r) ==
    /\ scriptPos < Len(script)
    /\ PollHttpOn(r, {script[scriptPos + 1]})
    /\ scriptPos' = scriptPos + 1
    /\ UNCHANGED script

\* The redemption request of the loop gets the provider's next answer.
ModesCliPoll ==
    /\ cliCalls < Len(script)
    /\ CliPollOn({script[cliCalls + 1]})
    /\ UNCHANGED scriptVars

NextModes ==
    \/ \E r \in Threads : ModesPoll(r)
    \/ \E r \in Threads : PollCheck(r)
    \/ \E r \in Threads : ModesPollHttp(r)
    \/ \E r \in Threads : PollTrunc(r)
    \/ \E r \in Threads : PollWrite(r)
    \/ ModesCliPoll
    \/ CliSleep

SpecModes == InitModes /\ [][NextModes]_vars

\* ------------------------------------------------------------------ claims
\* A response that reports a terminal outcome of an advance: expired,
\* provider error / denial, or the tokens (also when building the token
\* response failed after the session was deleted).
TerminalResp(x) ==
    \/ x.status = 408
    \/ x.status = 500 /\ x.unhandled # "EOFError"
    \/ x.status = 200 /\ x.access_token # Absent

\* C1: with requests served one after the other, once an advance on a session
\* has ended in a terminal outcome the session is out of the store, no
\* terminal outcome is reported for it a second time, and every later advance
\* on that session id is answered NotFound.
C1_TerminalOnce ==
    \A s \in SessionIds :
        terminals[s] >= 1 =>
            /\ terminals[s] = 1
            /\ s \notin DOMAIN sessionFile
            /\ \A r \in Threads : sid[r] # s
            /\ (out.op = "poll-token" /\ out.sid = s) =>
                   (out.resp = NotFoundResp \/ TerminalResp(out.resp))

C1_Witness ==
    \E s \in SessionIds :
        /\ terminals[s] = 1
        /\ out.op = "poll-token" /\ out.sid = s /\ out.resp = NotFoundResp

\* The expiry branch of api_poll_token taken by thread r for session s: the
\* session is deleted from the handler's dictionary and no redemption request
\* is made.
TakesExpiredPath(r, s) ==
    /\ pend'[r].kind = "expired"
    /\ pc'[r] = "poll_trunc"
    /\ s \notin DOMAIN local'[r]
    /\ redeemCalls'[r] = 0 /\ http'[r] = Absent

\* A request on the expiry branch goes straight to the save and the answer.
ExpiredPathEnds ==
    \A r \in Threads :
        pend[r].kind = "expired" =>
            /\ pc[r] \in {"poll_trunc", "poll_write"}
            /\ redeemCalls[r] = 0 /\ http[r] = Absent
            /\ sid[r] \notin DOMAIN local[r]

\* The answer of the expiry branch: 408, the session gone from the file, the
\* provider never asked.
ExpiredAnswer ==
    \A r \in Threads :
        (PollWrite(r) /\ pend[r].kind = "expired") =>
            /\ out'.resp = ErrorResp(408, Exc("Session expired", EmptyJson, NoText))
            /\ out'.calls = 0 /\ out'.http = Absent
            /\ fileState' = "ok" /\ sid[r] \notin DOMAIN sessionFile'

\* C2 as stated: an advance on a stored session at a time greater than OR
\* EQUAL TO its expires_at takes the expiry branch (EXPIRED, session deleted,
\* no redemption request).
C2_ExpiredAtOrAfter ==
    /\ [][\A r \in Threads, s \in SessionIds :
            (PollCheck(r) /\ sid[r] = s /\ now >= local[r][s].expires_at)
                => TakesExpiredPath(r, s)]_vars
    /\ []ExpiredPathEnds
    /\ [][ExpiredAnswer]_vars

\* C2 amended: an advance on a stored session at a time strictly greater than
\* its expires_at takes the expiry branch: it answers EXPIRED (408), deletes
\* the session and makes no redemption request.
C2_ExpiredAfter ==
    /\ [][\A r \in Threads, s \in SessionIds :
            (PollCheck(r) /\ sid[r] = s /\ now > local[r][s].expires_at)
                => TakesExpiredPath(r, s)]_vars
    /\ []ExpiredPathEnds
    /\ [][ExpiredAnswer]_vars

C2_Witness ==
    /\ out.op = "poll-token" /\ out.resp.status = 408
    /\ out.calls = 0
    /\ fileState = "ok" /\ out.sid \notin DOMAIN sessionFile
    /\ out.sid \in created

\* C3: operations on different session ids do not interfere: a session that
\* was saved and has not ended is in the file (no operation on another id
\* loses it), and a session whose advance ended in a terminal outcome stays
\* out of the file (no operation on another id brings it back).
C3_NoInterference ==
    \A b \in SessionIds :
        fileState = "ok" =>
            /\ (b \in created /\ terminals[b] = 0) => b \in DOMAIN sessionFile
            /\ terminals[b] >= 1 => b \notin DOMAIN sessionFile

\* The step just taken answered an advance after the provider answered h.
Answered(h) == out.op = "poll-token" /\ out.http = Some(h)
\* The session of the answer just given is gone from the saved file.
SessionDeleted == fileState = "ok" /\ out.sid \notin DOMAIN sessionFile

\* C4: when the provider answers a redemption with HTTP 200 and a token
\* payload, the advance answers 200 with exactly the payload's access_token
\* (refresh_token, id_token and expires_in passed through, null when absent)
\* and the session is deleted.
C4_AuthorizedPassThrough ==
    \A h \in TokenResponses :
        (Answered(h) /\ h.status = 200 /\ h.json.access_token # Absent) =>
            /\ out.resp = [NoResp EXCEPT !.status = 200,
                                         !.access_token = h.json.access_token,
                                         !.refresh_token = h.json.refresh_token,
                                         !.id_token = h.json.id_token,
                                         !.expires_in = h.json.expires_in]
            /\ out.calls = 1
            /\ SessionDeleted
            /\ terminals[out.sid] >= 1

C4_Witness ==
    /\ out.op = "poll-token" /\ out.http # Absent /\ out.http[1].status = 200
    /\ out.resp.access_token = Some(<<"access_token", 1>>)
    /\ out.resp.refresh_token = Some(<<"refresh_token", 1>>)
    /\ out.sid \in created /\ SessionDeleted

\* The provider's answer "HTTP 400, error authorization_pending".
AuthorizationPending(h) ==
    h.status = 400 /\ h.json.error = Some("authorization_pending")

\* C5: when the provider answers a redemption with HTTP 400 and error
\* authorization_pending, the advance answers {status: pending} with HTTP 200
\* and no error, and the session stays in the file with the record
\* (expires_at, interval, client_id, device_code) the handler loaded; the
\* file is not written.
C5_PendingKeepsSession ==
    /\ [](\A h \in TokenResponses :
            (Answered(h) /\ AuthorizationPending(h)) =>
                /\ out.resp = PendingResp
                /\ out.resp.status = 200 /\ out.resp.error = NoExc
                /\ out.calls = 1
                /\ terminals[out.sid] = 0
                /\ fileState = "ok" /\ out.sid \in DOMAIN sessionFile)
    /\ [][\A r \in Threads :
            (PollHttp(r) /\ out'.http # Absent /\ AuthorizationPending(out'.http[1])) =>
                /\ UNCHANGED <<fileState, sessionFile>>
                /\ sessionFile'[sid[r]] = local[r][sid[r]]]_vars

C5_Witness ==
    /\ out.op = "poll-token" /\ out.http # Absent
    /\ AuthorizationPending(out.http[1])
    /\ out.resp = PendingResp
    /\ out.sid \in DOMAIN sessionFile
    /\ sessionFile[out.sid].device_code = DeviceCodeOf(out.sid)

\* C6: an advance on a session id that is not in the store answers 404
\* (Invalid session ID), makes no request to the provider and leaves the
\* file as it is.
C6_UnknownSession ==
    [][\A r \in Threads, s \in SessionIds :
         (Poll(r, s) /\ fileState # "empty" /\ s \notin DOMAIN sessionFile) =>
             /\ out' = [op |-> "poll-token", thread |-> r, sid |-> s,
                        resp |-> ErrorResp(404, Exc("Invalid session ID", EmptyJson, NoText)),
                        calls |-> 0, http |-> Absent]
             /\ pc'[r] = "idle" /\ redeemCalls'[r] = 0 /\ http'[r] = Absent
             /\ UNCHANGED <<fileState, sessionFile>>]_vars

C6_Witness ==
    /\ out.op = "poll-token" /\ out.resp.status = 404
    /\ out.calls = 0 /\ out.http = Absent
    /\ out.sid \notin DOMAIN sessionFile
    /\ \E s \in created : s # out.sid /\ s \in DOMAIN sessionFile

\* C7: a redemption answered HTTP 400 with an error value other than
\* authorization_pending and slow_down ends the advance in an error answer
\* that carries the provider's error payload ("OAuth error: " + payload); a
\* redemption answered with another failure status ends it in an error answer
\* that carries the raw body ("Unexpected error: " + text); either way the
\* session is deleted and the advance made exactly one redemption request.
C7_DeniedAndProviderError ==
    \A h \in TokenResponses :
        Answered(h) =>
            /\ (h.status = 400 /\ h.json.error # Absent
                               /\ h.json.error[1] \notin PendingErrors) =>
                   /\ out.resp = ErrorResp(500, Exc("OAuth error: ", h.json, NoText))
                   /\ out.calls = 1 /\ SessionDeleted /\ terminals[out.sid] >= 1
            /\ (h.status >= 300 /\ h.status # 400) =>
                   /\ out.resp = ErrorResp(500, Exc("Unexpected error: ", EmptyJson, h.text))
                   /\ out.calls = 1 /\ SessionDeleted /\ terminals[out.sid] >= 1

C7_Witness ==
    /\ Answered([status |-> 400, json |-> ErrorJson("authorization_declined"),
                 text |-> NoText])
    /\ out.resp.status = 500
    /\ out.resp.error.json.error = Some("authorization_declined")
    /\ out.sid \in created /\ SessionDeleted

\* The opaque strings a response shows to the caller.
RespValues(x) ==
    {v[1] : v \in {x.verification_uri, x.user_code, x.message, x.access_token,
                   x.refresh_token, x.id_token, x.error.json.access_token,
                   x.error.json.refresh_token, x.error.json.id_token} \ {Absent}}
    \cup {x.error.text}

\* C10: no response of api_device_code or api_poll_token (display payload,
\* pending, tokens, error, expired, not found) contains a device code.
C10_DeviceCodeNeverShown ==
    \A k \in SessionIds : DeviceCodeOf(k) \notin RespValues(out.resp)

C10_Witness ==
    /\ out.op = "device-code" /\ out.resp.status = 200
    /\ out.resp.user_code = Some(UserCodeOf(out.sid))
    /\ out.sid \in DOMAIN sessionFile
    /\ sessionFile[out.sid].device_code = DeviceCodeOf(out.sid)

\* The store under overlapping advances on one session: whenever the file is
\* whole, every other session is in it with its record unchanged, no key has
\* appeared, and the session is out of it from its first terminal outcome on.
C8_StoreIntegrity ==
    [](fileState = "ok" =>
            /\ \A b \in SessionIds \ {TheSession} :
                   b \in DOMAIN sessionFile /\ sessionFile[b] = Untouched(b)
            /\ DOMAIN sessionFile \subseteq SessionIds
            /\ terminals[TheSession] >= 1 => TheSession \notin DOMAIN sessionFile)

\* No advance on the session fails because of the other advance's removal:
\* none is answered with the unhandled EOFError of a load made while the
\* other's save is rewriting the file, and an unhandled KeyError of a del
\* comes only from a 200 payload without access_token (a del of the
\* handler's own making).
C8_NoFailureFromOther ==
    /\ [](out.op = "poll-token" => out.resp.unhandled # "EOFError")
    /\ [][\A r \in Threads :
            (PollWrite(r) /\ out'.resp.unhandled = "KeyError") =>
                (pend[r].kind = "token" /\ pend[r].token.access_token = Absent)]_vars

\* C8: for every interleaving of advances on the same session, removal
\* behaves as delete-if-present: the store is not corrupted (the session is
\* absent after a terminal outcome, every other session is unchanged) and no
\* advance fails because of the other advance's removal.
C8_SameSessionRace == C8_StoreIntegrity /\ C8_NoFailureFromOther

\* C9: the device code of the grant the command line holds has run out.
CliGrantExpired ==
    /\ cliDevice.expires_in # Absent
    /\ cliNow >= cliDevice.expires_in[1]

\* C9: the blocking polling loop of the command line ends once the device
\* code has run out: from a redemption request made at or after expiry, main
\* eventually returns or the process exits, whatever the provider answers.
C9_SyncLoopTerminates == (cliPc = "poll" /\ CliGrantExpired) ~> (cliPc = "done")

\* C11: a session in the store has the expires_at and the interval it was
\* saved with by api_device_code; no advance, on it or on another session,
\* pending or terminal, changes them.
C11_ExpiresAtFixed ==
    fileState = "ok" =>
        \A s \in DOMAIN sessionFile :
            /\ s \in DOMAIN born
            /\ sessionFile[s].expires_at = born[s].expires_at
            /\ sessionFile[s].interval = born[s].interval

C11_Witness ==
    /\ out.op = "poll-token" /\ out.resp = PendingResp
    /\ fileState = "ok" /\ out.sid \in DOMAIN sessionFile
    /\ now > 0
    /\ \E a \in SessionIds : a # out.sid /\ terminals[a] >= 1

\* Thread r is in api_device_code between uuid4 and the response.
Creating(r) == pc[r] \in {"dc_load", "dc_build", "dc_trunc", "dc_write"}

\* C12: the identifier a startFlow is about to store its session under is not
\* the key of a session in the store, was never the key of a saved session,
\* and is not the identifier of another startFlow under way: saving the new
\* session overwrites no session.
C12_FreshIdentifier ==
    \A r \in Threads :
        Creating(r) =>
            /\ sid[r] \notin DOMAIN sessionFile
            /\ sid[r] \notin created
            /\ \A q \in Threads \ {r} : Creating(q) => sid[q] # sid[r]

C12_Witness ==
    /\ out.op = "device-code" /\ out.resp.status = 200
    /\ fileState = "ok"
    /\ out.sid \in DOMAIN sessionFile
    /\ \E a \in DOMAIN sessionFile : a # out.sid

\* The interval the command line sleeps: device.get("interval", 5).
CliInterval ==
    IF cliDevice.interval = Absent THEN DefaultInterval ELSE cliDevice.interval[1]

\* C13: slow_down and authorization_pending are answered alike. After either,
\* the advance of the web application has answered pending after one request
\* and the session is in the store as it was saved; the command line has not
\* ended, and its next step is a sleep of the grant's interval, no longer,
\* followed by the next request.
C13_SlowDownAsPending ==
    /\ [](\A h \in PendingAnswers :
            /\ Answered(h) =>
                 /\ out.resp = PendingResp /\ out.calls = 1
                 /\ fileState = "ok" /\ out.sid \in DOMAIN sessionFile
                 /\ sessionFile[out.sid] = born[out.sid]
            /\ cliHttp = Some(h) =>
                 /\ cliPc \in {"sleep", "poll"}
                 /\ cliOut = NoCliOut)
    /\ [][cliPc = "sleep" /\ cliPc' # "sleep" =>
            /\ cliPc' = "poll"
            /\ cliNow' = Min(cliNow + CliInterval, MaxTime)
            /\ cliCalls' = cliCalls]_vars

C13_Witness ==
    /\ \E h \in PendingAnswers :
          /\ h.json.error = Some("slow_down")
          /\ Answered(h)
          /\ cliHttp = Some(h)
    /\ out.resp = PendingResp
    /\ cliPc = "poll" /\ cliCalls >= 1 /\ cliNow = 1

\* The step sends a redemption request of the command line.
CliRequests == cliPc = "poll" /\ cliPc' # "poll"

\* C14: a redemption request of the blocking loop that is not the first is
\* sent only after a pending answer to the one before and after a wait of at
\* least the grant's interval (5 when the grant has none) since then; once
\* main has ended, after a success or a failure, no request follows.
C14_SyncCadence ==
    /\ [][(CliRequests /\ cliCalls >= 1) =>
            /\ cliHttp # Absent /\ IsPending(cliHttp[1])
            /\ cliNow >= Min(cliLastAt + CliInterval, MaxTime)]_vars
    /\ [][cliPc = "done" => (cliPc' = "done" /\ cliCalls' = cliCalls
                                /\ cliHttp' = cliHttp)]_vars
    /\ [](cliPc = "sleep" => (cliHttp # Absent /\ IsPending(cliHttp[1])))

C14_Witness ==
    /\ cliPc = "done" /\ cliOut.kind = "token"
    /\ cliCalls >= 2
    /\ cliLastAt >= 1
    /\ cliDevice.interval = Some(1)

\* What an advance reports to its caller.
Reports(x) ==
    {c \in {"pending", "authorized", "error", "expired", "not-found"} :
        \/ c = "pending" /\ x = PendingResp
        \/ c = "authorized" /\ x.status = 200 /\ x.access_token # Absent
        \/ c = "error" /\ x.status = 500
        \/ c = "expired" /\ x.status = 408
        \/ c = "not-found" /\ x.status = 404}

\* C15: an advance sends at most one redemption request, none when the
\* session is not found or has expired; it
\* reports exactly one of pending, authorized, error, expired, not-found; and
\* time does not pass by any step of a handler (no sleep).
C15_OneStepPerAdvance ==
    /\ [](\A r \in Threads : redeemCalls[r] <= 1)
    /\ [](out.op = "poll-token" =>
            /\ Cardinality(Reports(out.resp)) = 1
            /\ out.calls <= 1
            /\ (out.resp.status \in {404, 408}) => (out.calls = 0 /\ out.http = Absent))
    /\ [][now' # now => pc' = pc]_vars
    /\ [][\A r \in Threads : (pc[r] = "poll_http" /\ pc'[r] # "poll_http") =>
              redeemCalls[r] = 0]_vars

C15_Witness ==
    /\ out.op = "poll-token" /\ out.resp = PendingResp /\ out.calls = 1
    /\ fileState = "ok" /\ out.sid \in DOMAIN sessionFile
    /\ now > 0

\* C16: a startFlow that answers 200 has built, at its creation time, the
\* record holding the request's client_id, the grant's device_code, the
\* grant's interval (5 if absent) and creation time + the grant's expires_in
\* (900 if absent); its save adds that record under the new session id to the
\* sessions of the store and changes none of them; and it answers with that
\* session id and the grant's verification_uri, user_code and message.
C16_StartFlowRecord ==
    /\ [][\A r \in Threads :
            (pc[r] = "dc_build" /\ pc'[r] = "dc_trunc") =>
                local'[r][sid[r]] =
                    [client_id |-> client[r],
                     device_code |-> device[r].device_code[1],
                     interval |-> IF device[r].interval = Absent THEN 5
                                  ELSE device[r].interval[1],
                     expires_at |-> IF device[r].expires_in = Absent THEN now + 900
                                    ELSE now + device[r].expires_in[1]]]_vars
    /\ [][\A r \in Threads :
            (pc[r] = "dc_write" /\ pc'[r] = "idle" /\ out'.resp.status = 200) =>
                /\ sid[r] \notin DOMAIN born
                /\ fileState' = "ok"
                /\ sessionFile' = DictPut(born, sid[r], local[r][sid[r]])
                /\ out'.resp = [NoResp EXCEPT !.status = 200,
                                              !.session_id = Some(sid[r]),
                                              !.verification_uri = device[r].verification_uri,
                                              !.user_code = device[r].user_code,
                                              !.message = device[r].message]
                /\ device[r].verification_uri # Absent
                /\ device[r].user_code # Absent
                /\ device[r].message # Absent]_vars

C16_Witness ==
    /\ out.op = "device-code" /\ out.resp.status = 200
    /\ out.resp.session_id = Some(out.sid)
    /\ fileState = "ok" /\ out.sid \in DOMAIN sessionFile
    /\ sessionFile[out.sid].expires_at = now + 900
    /\ sessionFile[out.sid].interval = 5
    /\ now > 0
    /\ \E a \in DOMAIN sessionFile : a # out.sid

\* The token endpoint could not be reached (requests.post raised).
TransportFailure(h) == h.status = 0

\* C17: when a redemption request fails at the transport level, the advance
\* of the web application answers an error (500 with the exception) after
\* that one request, and the command line leaves its loop and main ends
\* reporting the error; neither sends another request for it.
C17_TransportFailureSurfaced ==
    /\ [](\A h \in TokenResponses :
            /\ (Answered(h) /\ TransportFailure(h)) =>
                 /\ out.resp.status = 500
                 /\ out.resp.error.msg = "ConnectionError"
                 /\ out.calls = 1
                 /\ pc[out.thread] = "idle"
            /\ (cliHttp = Some(h) /\ TransportFailure(h)) =>
                 /\ cliPc = "done"
                 /\ cliOut.kind = "poll-error")
    /\ [][cliPc = "done" => (cliPc' = "done" /\ cliCalls' = cliCalls
                                /\ cliLastAt' = cliLastAt)]_vars
    /\ [][\A r \in Threads :
            (http[r] # Absent /\ TransportFailure(http[r][1])) =>
                redeemCalls'[r] <= redeemCalls[r]]_vars

C17_Witness ==
    /\ \E h \in TokenResponses :
          TransportFailure(h) /\ Answered(h) /\ cliHttp = Some(h)
    /\ out.resp.status = 500
    /\ cliPc = "done" /\ cliOut.kind = "poll-error"
    /\ cliCalls >= 2 /\ scriptPos >= 2

\* C18: a startFlow that answers an error leaves the store as it was: the
\* file holds the sessions saved before and not ended since, and no session
\* under the id drawn for the failed flow.
C18_ErrorLeavesStore ==
    [][(out'.op = "device-code" /\ out'.resp.status # 200) =>
          /\ sessionFile' = born
          /\ out'.sid \notin DOMAIN sessionFile']_vars

\* Both programs have been given every answer of the script and have dealt
\* with the last one.
ScriptPlayed ==
    /\ cliCalls = Len(script) /\ cliPc # "poll"
    /\ scriptPos = Len(script) /\ AllIdle

\* C19: given the same answers, pending ones and then one that is not, the
\* blocking loop and the repeated advance both end with the last answer, after
\* as many requests as there are answers, and in the same outcome: the token
\* of the payload when the last answer is an HTTP 200, a failure otherwise.
C19_ModesAgree ==
    /\ cliPc = "done" => cliCalls = Len(script)
    /\ terminals[TheSession] >= 1 => scriptPos = Len(script)
    /\ ScriptPlayed =>
         /\ cliPc = "done"
         /\ out.op = "poll-token" /\ TerminalResp(out.resp)
         /\ IF script[Len(script)].status = 200
            THEN /\ cliOut.kind = "token"
                 /\ out.resp.status = 200
                 /\ out.resp.access_token = script[Len(script)].json.access_token
                 /\ cliOut.json = script[Len(script)].json
            ELSE /\ cliOut.kind # "token"
                 /\ out.resp.status = 500

====
